---- MODULE Spec2Model ----
(***************************************************************************)
(* State machine of the WayFinder map screen (MapScreen) and of the        *)
(* directions omnibox (OmniboxDirections) it composes.                      *)
(*                                                                          *)
(* A handler of a React function component reads the state of the render   *)
(* that created it (its closure) and writes through the state setters.     *)
(* The handlers below therefore take two states: s, the state being        *)
(* written, and cl, the state the handler's closure reads.  For a user     *)
(* gesture cl is the current state; for the continuation of a promise cl   *)
(* is the state of the render that issued the request.                     *)
(***************************************************************************)
EXTENDS Integers, Sequences, FiniteSets, TLC

\* ------------------------------------------------------------------ bounds
MaxLookups == 1
MaxSearches == 1
MaxClock == 2
MaxLevels == 2
MaxFloorIndex == 2

\* ------------------------------------------------------------ static data
Null == "null"

NONE == "NONE"
PLANNING == "PLANNING"
TRAVELLING == "TRAVELLING"
TravelStates == {NONE, PLANNING, TRAVELLING}

FETCHING_CURRENT_LOCATION_DISPLAY_TEXT == "Fetching current location..."
CURRENT_LOCATION_DISPLAY_TEXT == "Current Location"

\* The building registry, in registry order, and the points of interest.
Buildings == <<"H", "EV">>
BuildingIds == {Buildings[i] : i \in 1..Len(Buildings)}
POIs == {"cafe"}

\* Device coordinates: c0 lies in no building, c1 in H only, c2 in H and EV.
Coords == {"c0", "c1", "c2"}
boundingBox == [b \in BuildingIds |-> IF b = "H" THEN {"c1", "c2"} ELSE {"c2"}]

isPointInPolygon(c, polygon) == c \in polygon

\* Texts a user types into a field, and the candidates a search yields.
Texts == {"a"}

\* A trip endpoint (MarkerLocation).  NullLocation stands for null/undefined.
NullLocation == [type |-> "null", id |-> Null, coords |-> Null]
Building(b) == [type |-> "Building", id |-> b, coords |-> Null]
Poi(p) == [type |-> "POI", id |-> p, coords |-> Null]
SearchResult(q) == [type |-> "SearchResult", id |-> q, coords |-> Null]

buildingToMarker(building) ==
  [type |-> "BuildingMarker", id |-> building.id, coords |-> Null]

locationToSearchResult(id, displayName, coordinates) ==
  [type |-> "CurrentLocation", id |-> id, coords |-> coordinates]

\* location.displayName
displayName(location) ==
  CASE location.type = "Building" -> location.id
    [] location.type = "BuildingMarker" -> location.id
    [] location.type = "POI" -> location.id
    [] location.type = "SearchResult" -> "result " \o location.id
    [] location.type = "CurrentLocation" -> location.id
    [] OTHER -> "undefined"

\* A candidate list (SearchResult[] | null); field records which input's
\* request produced it.
NullResults == [isNull |-> TRUE, field |-> Null, items |-> <<>>]
Candidates(text) == IF text = "" THEN <<>> ELSE <<SearchResult(text)>>
Results(field, text) == [isNull |-> FALSE, field |-> field, items |-> Candidates(text)]

\* The departments and services of the registry's buildings, in registry
\* order: each entry has a title and a link.
Entry(title, link) == [title |-> title, link |-> link]
departments ==
  [b \in BuildingIds |->
     IF b = "H" THEN <<Entry("Geography", "geo"), Entry("Economics", "econ")>>
     ELSE <<Entry("Design", "design")>>]
services ==
  [b \in BuildingIds |->
     IF b = "H" THEN <<Entry("IT Desk", "it")>>
     ELSE <<Entry("Gym", "gym"), Entry("Print", "print")>>]

\* An indoor floor (IndoorFloor); NullFloor is null, UndefinedFloor is the
\* [0] of an empty filter result.
NullFloor == [level |-> "null", index |-> -1]
UndefinedFloor == [level |-> "undefined", index |-> -1]
FloorIndexes == 0..MaxFloorIndex
FloorNames == {"1", "S2"}

\* Number(floor.name): the number a numeric name denotes, NaN otherwise.
NumberOf(name) == IF name \in {"1"} THEN "1" ELSE "NaN"

\* event.nativeEvent.IndoorBuilding.levels: lists of at most MaxLevels levels.
LevelLists ==
  UNION {[1..n -> [name : FloorNames, index : FloorIndexes]] : n \in 0..MaxLevels}

\* TravelMode, and the platforms of Platform.OS.
ACCESSIBLE == "ACCESSIBLE"
WALKING == "WALKING"
TravelModes == {"CAR", ACCESSIBLE, WALKING, "BUS", "SHUTTLE"}
Platforms == {"ios", "android"}

\* ------------------------------------------------------------------ state
VARIABLES
  showBuildingInfo, tappedBuilding, currentLocation,
  endLocation, startLocation, endLocationFocused, travelState,
  startLocationDisplay,
  endLocationDisplay, startLocationSearchResults, endLocationSearchResults,
  focusedInput,
  pendingLookups, pendingSearches,
  crashed, lastOp,
  date, dateIsNow, showTimePicker, platformOS, clock, travelMode,
  indoorInformation

\* The time picker and travel mode of the omnibox; the indoor floors.
controlVars == <<date, dateIsNow, showTimePicker, platformOS, clock, travelMode>>
indoorVars == <<indoorInformation>>

screenVars == <<showBuildingInfo, tappedBuilding, currentLocation,
                endLocation, startLocation, endLocationFocused, travelState,
                startLocationDisplay,
                endLocationDisplay, startLocationSearchResults,
                endLocationSearchResults, focusedInput,
                pendingLookups, pendingSearches, crashed>>

vars == <<screenVars, lastOp, controlVars, indoorVars>>

\* The current state as one record.
Cur ==
  [showBuildingInfo |-> showBuildingInfo,
   tappedBuilding |-> tappedBuilding,
   currentLocation |-> currentLocation,
   endLocation |-> endLocation,
   startLocation |-> startLocation,
   endLocationFocused |-> endLocationFocused,
   travelState |-> travelState,
   startLocationDisplay |-> startLocationDisplay,
   endLocationDisplay |-> endLocationDisplay,
   startLocationSearchResults |-> startLocationSearchResults,
   endLocationSearchResults |-> endLocationSearchResults,
   focusedInput |-> focusedInput,
   pendingLookups |-> pendingLookups,
   pendingSearches |-> pendingSearches,
   crashed |-> crashed]

\* The omnibox is rendered in PLANNING and TRAVELLING.
OmniboxShown(s) == s.travelState = PLANNING \/ s.travelState = TRAVELLING

Op(name, arg) == [op |-> name, arg |-> arg]

RemoveAt(seq, i) == [j \in 1..(Len(seq) - 1) |-> IF j < i THEN seq[j] ELSE seq[j + 1]]

\* ------------------------------------------------ MapScreen: the handlers
\* Mutant: the focused endpoint is written in every state but NONE.
setBuildingMarkerLocation_OutsideNone(s, cl, building) ==
  IF cl.travelState # NONE
    THEN IF cl.endLocationFocused
           THEN [s EXCEPT !.endLocation = building]
           ELSE [s EXCEPT !.startLocation = building]
    ELSE s

\* setBuildingMarkerLocation, reading the closure cl.
setBuildingMarkerLocation(s, cl, building) ==
  IF cl.travelState = PLANNING
    THEN IF cl.endLocationFocused
           THEN [s EXCEPT !.endLocation = building]
           ELSE [s EXCEPT !.startLocation = building]
    ELSE s

\* Mutant: the panel flag is set whatever the travel state.
onBuildingTap_AlwaysShows(s, cl, b) ==
  setBuildingMarkerLocation(
    [s EXCEPT !.showBuildingInfo = TRUE, !.tappedBuilding = b], cl, Building(b))

\* onBuildingTap(tappedBuilding), reading the closure cl.
onBuildingTap(s, cl, b) ==
  LET s1 == IF cl.travelState = NONE
              THEN [s EXCEPT !.showBuildingInfo = TRUE]
              ELSE s
      s2 == [s1 EXCEPT !.tappedBuilding = b]
  IN  setBuildingMarkerLocation(s2, cl, Building(b))

\* Mutant: the panel is hidden but the tapped building is kept.
onClosePanel_KeepsTapped(s) == [s EXCEPT !.showBuildingInfo = FALSE]

\* Mutant: the tapped building is cleared but the panel flag is kept.
onClosePanel_KeepsShown(s) == [s EXCEPT !.tappedBuilding = Null]


onClosePanel(s) ==
  [s EXCEPT !.showBuildingInfo = FALSE, !.tappedBuilding = Null]

\* The closure a promise continuation keeps: the state of the render that
\* issued the request (the fields its handlers read).
Closure(cl) ==
  [travelState |-> cl.travelState, endLocationFocused |-> cl.endLocationFocused]

\* setUserCurrentLocation: sets the placeholder and issues the lookup.
setUserCurrentLocation(s, cl) ==
  [s EXCEPT !.startLocationDisplay = FETCHING_CURRENT_LOCATION_DISPLAY_TEXT,
            !.pendingLookups = Append(@, Closure(cl))]

\* Mutant: the lookup is issued on every press while the end field is focused.
onPOIMarkerPress_AlwaysLooksUp(s, cl, poi) ==
  IF cl.endLocationFocused
    THEN [setUserCurrentLocation([s EXCEPT !.travelState = PLANNING], cl)
            EXCEPT !.endLocation = poi]
    ELSE [s EXCEPT !.startLocation = poi]

onPOIMarkerPress(s, cl, poi) ==
  IF cl.endLocationFocused
    THEN LET s1 == [s EXCEPT !.travelState = PLANNING]
             s2 == IF cl.travelState = NONE
                     THEN setUserCurrentLocation(s1, cl)
                     ELSE s1
         IN  [s2 EXCEPT !.endLocation = poi]
    ELSE [s EXCEPT !.startLocation = poi]

\* Buildings.find(building => isPointInPolygon(coordinates, building.boundingBox)):
\* the first building of the registry that contains the point, or Null.
RECURSIVE FindFrom(_, _)
FindFrom(i, coordinates) ==
  IF i > Len(Buildings)
    THEN Null
    ELSE IF isPointInPolygon(coordinates, boundingBox[Buildings[i]])
           THEN Buildings[i]
           ELSE FindFrom(i + 1, coordinates)

\* Mutant: the last containing building of the registry wins.
RECURSIVE FindLastFrom(_, _)
FindLastFrom(i, coordinates) ==
  IF i < 1
    THEN Null
    ELSE IF isPointInPolygon(coordinates, boundingBox[Buildings[i]])
           THEN Buildings[i]
           ELSE FindLastFrom(i - 1, coordinates)

FindBuilding_LastMatch(coordinates) == FindLastFrom(Len(Buildings), coordinates)


FindBuilding(coordinates) == FindFrom(1, coordinates)

\* Mutant: a point inside several polygons is no building's.
setStartLocationBuilding_UniqueOnly(s, cl, coordinates) ==
  LET inside == {b \in BuildingIds : isPointInPolygon(coordinates, boundingBox[b])}
  IN  IF Cardinality(inside) = 1
        THEN [onBuildingTap(s, cl, CHOOSE b \in inside : TRUE)
                EXCEPT !.startLocation =
                  buildingToMarker(Building(CHOOSE b \in inside : TRUE))]
        ELSE [s EXCEPT !.startLocation =
                locationToSearchResult(CURRENT_LOCATION_DISPLAY_TEXT,
                                       CURRENT_LOCATION_DISPLAY_TEXT,
                                       coordinates)]

setStartLocationBuilding(s, cl, coordinates) ==
  LET isInBuilding == FindBuilding(coordinates)
  IN  IF isInBuilding # Null
        THEN [onBuildingTap(s, cl, isInBuilding)
                EXCEPT !.startLocation = buildingToMarker(Building(isInBuilding))]
        ELSE [s EXCEPT !.startLocation =
                locationToSearchResult(CURRENT_LOCATION_DISPLAY_TEXT,
                                       CURRENT_LOCATION_DISPLAY_TEXT,
                                       coordinates)]

\* Mutant: a response that arrives outside PLANNING is discarded.
LookupThen_DropsStale(s, cl, coords) ==
  IF s.travelState = PLANNING
    THEN setStartLocationBuilding([s EXCEPT !.currentLocation = coords], cl, coords)
    ELSE s

\* Mutant: a failed lookup is retried.
LookupCatch_Retries(s) ==
  [s EXCEPT !.startLocationDisplay = "",
            !.pendingLookups = Append(@, [travelState |-> s.travelState,
                                          endLocationFocused |-> s.endLocationFocused])]

\* Mutant: a coordinate outside every building is not stored as the start.
LookupThen_BuildingsOnly(s, cl, coords) ==
  IF FindBuilding(coords) # Null
    THEN setStartLocationBuilding([s EXCEPT !.currentLocation = coords], cl, coords)
    ELSE [s EXCEPT !.currentLocation = coords]

\* The continuations of getCurrentLocationAsync() in setUserCurrentLocation.
LookupThen(s, cl, coords) ==
  setStartLocationBuilding([s EXCEPT !.currentLocation = coords], cl, coords)

LookupCatch(s) == [s EXCEPT !.startLocationDisplay = ""]

\* ------------------------------------------------- MapScreen: indoor floors
\* floors.filter(floor => floor.index === index)[0]
RECURSIVE FirstWithIndex(_, _, _)
FirstWithIndex(floors, i, index) ==
  IF i > Len(floors) THEN UndefinedFloor
  ELSE IF floors[i].index = index THEN floors[i]
  ELSE FirstWithIndex(floors, i + 1, index)

\* buildingInfo.levels.map(floor => ({level: Number(floor.name), index: floor.index}))
FloorsOf(levels) ==
  [i \in 1..Len(levels) |-> [level |-> NumberOf(levels[i].name), index |-> levels[i].index]]

\* Mutant: the new floors are stored with the current floor of the old ones.
onIndoorViewEntry_KeepsCurrent(info, levels, activeLevelIndex) ==
  [currentFloor |-> info.currentFloor, floors |-> FloorsOf(levels)]

\* onIndoorViewEntry(event)
onIndoorViewEntry(info, levels, activeLevelIndex) ==
  LET floors == FloorsOf(levels)
  IN [currentFloor |-> IF Len(floors) > 0
                         THEN FirstWithIndex(floors, 1, activeLevelIndex)
                         ELSE NullFloor,
      floors |-> floors]

\* onFloorPickerButtonPress(index)
onFloorPickerButtonPress(info, index) ==
  [currentFloor |-> FirstWithIndex(info.floors, 1, index), floors |-> info.floors]

\* ----------------------------------------- OmniboxDirections: the handlers
\* useEffect(..., [startLocation])
StartLocationEffect(s) ==
  LET s1 == IF s.startLocation # NullLocation
              THEN [s EXCEPT !.startLocationDisplay = displayName(s.startLocation)]
              ELSE IF s.startLocationDisplay # FETCHING_CURRENT_LOCATION_DISPLAY_TEXT
                     THEN [s EXCEPT !.startLocationDisplay = ""]
                     ELSE s
  IN  [s1 EXCEPT !.startLocationSearchResults = NullResults]

\* useEffect(..., [endLocation])
EndLocationEffect(s) ==
  LET s1 == IF s.endLocation # NullLocation
              THEN [s EXCEPT !.endLocationDisplay = displayName(s.endLocation)]
              ELSE [s EXCEPT !.endLocationDisplay = ""]
  IN  [s1 EXCEPT !.endLocationSearchResults = NullResults]

\* Mutant: the focus flag is not reset.
BackArrowPress_KeepsFocus(s) ==
  [s EXCEPT !.endLocation = NullLocation,
            !.startLocation = NullLocation,
            !.travelState = NONE]

\* The back arrow's onPress.
BackArrowPress(s) ==
  [s EXCEPT !.endLocation = NullLocation,
            !.startLocation = NullLocation,
            !.endLocationFocused = TRUE,
            !.travelState = NONE]

\* Mutant: the start input keeps the typed text when it is blurred.
StartBlur_KeepsText(s) == [s EXCEPT !.startLocationSearchResults = NullResults]

\* onBlur of the two inputs.
StartBlur(s) ==
  LET s1 == IF s.startLocation # NullLocation
              THEN [s EXCEPT !.startLocationDisplay = displayName(s.startLocation)]
              ELSE s
  IN  [s1 EXCEPT !.startLocationSearchResults = NullResults]

EndBlur(s) ==
  LET s1 == IF s.endLocation # NullLocation
              THEN [s EXCEPT !.endLocationDisplay = displayName(s.endLocation)]
              ELSE s
  IN  [s1 EXCEPT !.endLocationSearchResults = NullResults]

Blur(s) ==
  CASE s.focusedInput = "start" -> StartBlur(s)
    [] s.focusedInput = "end" -> EndBlur(s)
    [] OTHER -> s

\* onFocus of the two inputs; the input that had the focus is blurred first.
Focus(s, field) ==
  [Blur(s) EXCEPT !.endLocationFocused = (field = "end"),
                  !.focusedInput = field]

\* onChangeText: updateSearchResults(inputText, setSearchResults,
\* setDisplayValue, currentLocation) shows the text and issues the search.
ChangeText(s, field, inputText) ==
  LET s1 == IF field = "start"
              THEN [s EXCEPT !.startLocationDisplay = inputText]
              ELSE [s EXCEPT !.endLocationDisplay = inputText]
  IN  [s1 EXCEPT !.pendingSearches =
                   Append(@, [field |-> field, text |-> inputText])]

\* The search's response: setSearchResults(results) of the issuing field.
SearchResponse(s, req) ==
  IF req.field = "start"
    THEN [s EXCEPT !.startLocationSearchResults = Results(req.field, req.text)]
    ELSE [s EXCEPT !.endLocationSearchResults = Results(req.field, req.text)]

\* The autocomplete list is rendered when a slot holds a list and its input
\* is not empty; it shows startLocationSearchResults || endLocationSearchResults.
AutocompleteShown(s) ==
  \/ (~s.startLocationSearchResults.isNull /\ s.startLocationDisplay # "")
  \/ (~s.endLocationSearchResults.isNull /\ s.endLocationDisplay # "")

AutocompleteResults(s) ==
  IF ~s.startLocationSearchResults.isNull
    THEN s.startLocationSearchResults
    ELSE s.endLocationSearchResults

\* Mutant: the two setters are swapped.
SetLocation_Swapped(s, location) ==
  IF s.endLocationFocused
    THEN [s EXCEPT !.startLocation = location]
    ELSE [s EXCEPT !.endLocation = location]

\* setLocation={endLocationFocused ? setEndLocation : setStartLocation}
SetLocation(s, location) ==
  IF s.endLocationFocused
    THEN [s EXCEPT !.endLocation = location]
    ELSE [s EXCEPT !.startLocation = location]

\* StartTravel is rendered when both endpoints are set in PLANNING.  The
\* travelState read here is the omnibox's travelState prop, which
\* OmniboxDirectionsProps declares as the screen's TravelState.
StartTravelShown(s) ==
  /\ s.startLocation # NullLocation
  /\ s.endLocation # NullLocation
  /\ s.travelState = PLANNING

\* The props MapScreen's render passes to OmniboxDirections do not include
\* travelState: inside the omnibox, as composed, the prop is undefined.
ComposedTravelStateProp(s) == "undefined"

StartTravelShownAsComposed(s) ==
  /\ s.startLocation # NullLocation
  /\ s.endLocation # NullLocation
  /\ ComposedTravelStateProp(s) = PLANNING

StartTravelPress(s) == [s EXCEPT !.travelState = TRAVELLING]

\* --------------------------- OmniboxDirections: departure time, travel mode
\* The omnibox's local time-picker state as one record.
Ctl ==
  [date |-> date, dateIsNow |-> dateIsNow, showTimePicker |-> showTimePicker,
   platformOS |-> platformOS]

\* A Date is <<t>>; NoDate is the null/undefined the picker reports when it
\* is dismissed.
NoDate == <<>>
Dates == {<<t>> : t \in 0..MaxClock}

\* Mutant: a null pick refreshes the date but leaves the flag as it was.
onDateChange_NullKeepsFlag(c, pickedDate, now) ==
  LET c1 == [c EXCEPT !.showTimePicker = (c.platformOS = "ios")]
  IN IF pickedDate = NoDate
       THEN [c1 EXCEPT !.date = now]
       ELSE [c1 EXCEPT !.date = pickedDate, !.dateIsNow = FALSE]

\* onDateChange(event, pickedDate); now is the value of new Date().
onDateChange(c, pickedDate, now) ==
  LET c1 == [c EXCEPT !.showTimePicker = (c.platformOS = "ios")]
  IN IF pickedDate = NoDate
       THEN [c1 EXCEPT !.date = now, !.dateIsNow = TRUE]
       ELSE [c1 EXCEPT !.date = pickedDate, !.dateIsNow = FALSE]

\* onPress of the time picker button.
TimePickerButtonOnPress(c) == [c EXCEPT !.showTimePicker = ~c.showTimePicker]

\* UtilityService.showPickedTime(date, dateIsNow): "now", or the picked time.
showPickedTime(d, isNow) ==
  IF isNow THEN [now |-> TRUE, time |-> NoDate] ELSE [now |-> FALSE, time |-> d]

DepartText(c) == showPickedTime(c.date, c.dateIsNow)

\* The buttons of the travel mode switcher that carry an onPressOut handler
\* and a selected style: the accessible and the walking button.
WiredTravelModes == {ACCESSIBLE, WALKING}

\* The travel mode after the button of mode m is pressed; setTravelMode is
\* the parent's state setter.
TravelModeOnPressOut(mode, m) == IF m \in WiredTravelModes THEN m ELSE mode

\* The button of mode m is drawn with travelModeButtonSelected.
Highlighted(mode, m) == m \in WiredTravelModes /\ mode = m

\* ------------------------------------------------- BuildingInformation
\* Mutant: the links are labelled with the entries' links.
PanelLinks_LabelledByLink(entries, nativeID) ==
  [i \in 1..Len(entries) |-> [nativeID |-> nativeID, children |-> entries[i].link]]

\* The pressable links the panel renders for a list of entries.
PanelLinks(entries, nativeID) ==
  [i \in 1..Len(entries) |-> [nativeID |-> nativeID, children |-> entries[i].title]]

DepartmentLinks(s) == PanelLinks(departments[s.tappedBuilding], "departments")
ServiceLinks(s) == PanelLinks(services[s.tappedBuilding], "services")

\* onPress of a link: nothing in the panel or the screen is set.
LinkOnPress(s) == s

\* ------------------------------------------------------- Search (NONE)
\* Selecting a destination in the plain search bar.
SearchSelectDestination(s, cl, location) ==
  setUserCurrentLocation(
    [s EXCEPT !.endLocation = location, !.travelState = PLANNING], cl)

\* Entering the directions flow from the search bar with no destination.
SearchEnterPlanning(s, cl) ==
  setUserCurrentLocation([s EXCEPT !.travelState = PLANNING], cl)

\* ---------------------------------------------------------------- render
\* The state after React has rendered the update from o to n and run the
\* omnibox's effects.  freshStart/freshEnd: the endpoint was set to a newly
\* created object, so the effect's dependency changed even if the value is
\* equal.  OmniboxDirections evaluates endLocation.displayName in every
\* render (the argument of useState): with no end location the render throws.
Unmounted(n) ==
  [n EXCEPT !.endLocationDisplay = "",
            !.startLocationSearchResults = NullResults,
            !.endLocationSearchResults = NullResults,
            !.focusedInput = Null,
            !.pendingSearches = <<>>]

Mounted(n) ==
  [n EXCEPT !.endLocationDisplay = displayName(n.endLocation),
            !.startLocationSearchResults = NullResults,
            !.endLocationSearchResults = NullResults,
            !.focusedInput = Null,
            !.pendingSearches = <<>>]

Render(o, n, freshStart, freshEnd) ==
  IF ~OmniboxShown(n)
    THEN Unmounted(n)
    ELSE IF n.endLocation = NullLocation
      THEN [Unmounted(n) EXCEPT !.crashed = TRUE]
      ELSE LET mounting == ~OmniboxShown(o)
               n0 == IF mounting THEN Mounted(n) ELSE n
               n1 == IF mounting \/ freshStart \/ n.startLocation # o.startLocation
                       THEN StartLocationEffect(n0)
                       ELSE n0
           IN  IF mounting \/ freshEnd \/ n.endLocation # o.endLocation
                 THEN EndLocationEffect(n1)
                 ELSE n1

Commit(n, op) ==
  /\ showBuildingInfo' = n.showBuildingInfo
  /\ tappedBuilding' = n.tappedBuilding
  /\ currentLocation' = n.currentLocation
  /\ endLocation' = n.endLocation
  /\ startLocation' = n.startLocation
  /\ endLocationFocused' = n.endLocationFocused
  /\ travelState' = n.travelState
  /\ startLocationDisplay' = n.startLocationDisplay
  /\ endLocationDisplay' = n.endLocationDisplay
  /\ startLocationSearchResults' = n.startLocationSearchResults
  /\ endLocationSearchResults' = n.endLocationSearchResults
  /\ focusedInput' = n.focusedInput
  /\ pendingLookups' = n.pendingLookups
  /\ pendingSearches' = n.pendingSearches
  /\ crashed' = n.crashed
  /\ lastOp' = op
  /\ UNCHANGED <<controlVars, indoorVars>>

\* ------------------------------------------------------------------- Init
\* The departure time of a mounted omnibox: new Date() at the mount, "now".
ControlsInit ==
  /\ date = <<0>>
  /\ clock = 0
  /\ dateIsNow = TRUE
  /\ showTimePicker = FALSE

IndoorInit ==
  indoorInformation = [currentFloor |-> NullFloor, floors |-> <<>>]

ScreenInit ==
  /\ showBuildingInfo = FALSE
  /\ tappedBuilding = Null
  /\ currentLocation = Null
  /\ endLocation = NullLocation
  /\ startLocation = NullLocation
  /\ endLocationFocused = TRUE
  /\ travelState = NONE
  /\ startLocationDisplay = ""
  /\ endLocationDisplay = ""
  /\ startLocationSearchResults = NullResults
  /\ endLocationSearchResults = NullResults
  /\ focusedInput = Null
  /\ pendingLookups = <<>>
  /\ pendingSearches = <<>>
  /\ crashed = FALSE
  /\ lastOp = Op("init", Null)

\* In Spec the omnibox's controls and the indoor floors are held fixed.
Init ==
  /\ ScreenInit
  /\ ControlsInit
  /\ platformOS = "android"
  /\ travelMode = WALKING
  /\ IndoorInit

\* ---------------------------------------------------------------- actions
\* A building polygon is tapped on the map.
BuildingTap ==
  /\ ~crashed
  /\ \E b \in BuildingIds :
       Commit(Render(Cur, onBuildingTap(Cur, Cur, b), FALSE, FALSE),
              Op("onBuildingTap", b))

\* A point-of-interest marker is pressed on the map.
POIMarkerPress ==
  /\ ~crashed
  /\ travelState = NONE => Len(pendingLookups) < MaxLookups
  /\ \E p \in POIs :
       Commit(Render(Cur, onPOIMarkerPress(Cur, Cur, Poi(p)), FALSE, FALSE),
              Op("onPOIMarkerPress", p))

\* The information panel (rendered in NONE) is closed.
ClosePanel ==
  /\ ~crashed
  /\ travelState = NONE
  /\ Commit(Render(Cur, onClosePanel(Cur), FALSE, FALSE), Op("onClosePanel", Null))

\* The location button (rendered in NONE) is pressed.
LocationButtonPress ==
  /\ ~crashed
  /\ travelState = NONE
  /\ Len(pendingLookups) < MaxLookups
  /\ Commit(Render(Cur, setUserCurrentLocation(Cur, Cur), FALSE, FALSE),
            Op("LocationButtonPress", Null))

\* A destination is selected in the plain search bar (rendered in NONE).
SearchSelect ==
  /\ ~crashed
  /\ travelState = NONE
  /\ Len(pendingLookups) < MaxLookups
  /\ \E q \in Texts :
       Commit(Render(Cur, SearchSelectDestination(Cur, Cur, SearchResult(q)),
                     FALSE, TRUE),
              Op("SearchSelect", Null))

\* The directions flow is entered from the search bar with no destination.
SearchEnter ==
  /\ ~crashed
  /\ travelState = NONE
  /\ Len(pendingLookups) < MaxLookups
  /\ Commit(Render(Cur, SearchEnterPlanning(Cur, Cur), FALSE, FALSE),
            Op("SearchEnter", Null))

\* getCurrentLocationAsync() resolves with coordinates c.
LocationResolve ==
  \E i \in 1..Len(pendingLookups), c \in Coords :
    LET rest == [Cur EXCEPT !.pendingLookups = RemoveAt(@, i)]
    IN  IF crashed
          THEN Commit(rest, Op("LocationResolveDropped", c))
          ELSE Commit(Render(Cur, LookupThen(rest, pendingLookups[i], c), TRUE, FALSE),
                      Op("LocationResolve", c))

\* getCurrentLocationAsync() rejects.
LocationReject ==
  \E i \in 1..Len(pendingLookups) :
    LET rest == [Cur EXCEPT !.pendingLookups = RemoveAt(@, i)]
    IN  IF crashed
          THEN Commit(rest, Op("LocationRejectDropped", Null))
          ELSE Commit(Render(Cur, LookupCatch(rest), FALSE, FALSE),
                      Op("LocationReject", Null))

\* The back arrow of the omnibox is pressed.
BackArrow ==
  /\ ~crashed
  /\ OmniboxShown(Cur)
  /\ Commit(Render(Cur, BackArrowPress(Cur), FALSE, FALSE), Op("BackArrow", Null))

\* An input of the omnibox takes the focus.
FocusInput ==
  /\ ~crashed
  /\ OmniboxShown(Cur)
  /\ \E field \in {"start", "end"} :
       /\ focusedInput # field
       /\ Commit(Render(Cur, Focus(Cur, field), FALSE, FALSE), Op("Focus", Null))

\* The focused input of the omnibox loses the focus (keyboard dismissed).
BlurInput ==
  /\ ~crashed
  /\ OmniboxShown(Cur)
  /\ focusedInput # Null
  /\ Commit(Render(Cur, [Blur(Cur) EXCEPT !.focusedInput = Null], FALSE, FALSE),
            Op("Blur", Null))

\* The user edits the text of the focused input.
TypeText ==
  /\ ~crashed
  /\ OmniboxShown(Cur)
  /\ focusedInput # Null
  /\ Len(pendingSearches) < MaxSearches
  /\ \E inputText \in Texts :
       Commit(Render(Cur, ChangeText(Cur, focusedInput, inputText), FALSE, FALSE),
              Op("ChangeText", Null))

\* A search response is delivered.
SearchDeliver ==
  /\ ~crashed
  /\ \E j \in 1..Len(pendingSearches) :
       LET rest == [Cur EXCEPT !.pendingSearches = RemoveAt(@, j)]
       IN  Commit(Render(Cur, SearchResponse(rest, pendingSearches[j]), FALSE, FALSE),
                  Op("SearchResponse", Null))

\* A candidate of the displayed autocomplete list is selected.
AutocompleteSelect ==
  /\ ~crashed
  /\ OmniboxShown(Cur)
  /\ AutocompleteShown(Cur)
  /\ \E k \in 1..Len(AutocompleteResults(Cur).items) :
       Commit(Render(Cur, SetLocation(Cur, AutocompleteResults(Cur).items[k]),
                     ~endLocationFocused, endLocationFocused),
              Op("AutocompleteSelect", Null))

\* The start-travel affordance is confirmed.
StartTravel ==
  /\ ~crashed
  /\ OmniboxShown(Cur)
  /\ StartTravelShown(Cur)
  /\ Commit(Render(Cur, StartTravelPress(Cur), FALSE, FALSE), Op("StartTravel", Null))

\* A department or service link of the shown information panel is pressed.
LinkPress ==
  /\ ~crashed
  /\ travelState = NONE
  /\ showBuildingInfo
  /\ tappedBuilding # Null
  /\ \E nativeID \in {"departments", "services"} :
       /\ \E i \in 1..Len(IF nativeID = "departments" THEN DepartmentLinks(Cur)
                                                       ELSE ServiceLinks(Cur)) : TRUE
       /\ Commit(Render(Cur, LinkOnPress(Cur), FALSE, FALSE), Op("LinkPress", nativeID))

Next ==
  \/ LinkPress
  \/ BuildingTap
  \/ POIMarkerPress
  \/ ClosePanel
  \/ LocationButtonPress
  \/ SearchSelect
  \/ SearchEnter
  \/ LocationResolve
  \/ LocationReject
  \/ BackArrow
  \/ FocusInput
  \/ BlurInput
  \/ TypeText
  \/ SearchDeliver
  \/ AutocompleteSelect
  \/ StartTravel

Spec == Init /\ [][Next]_vars

\* Every lookup in flight is eventually settled: the promise of
\* getCurrentLocationAsync() resolves or rejects.
LookupSettles == LocationResolve \/ LocationReject

\* The operations that write the start display, issue or settle a lookup,
\* or show and hide the omnibox.
NextStartDisplay ==
  \/ BuildingTap
  \/ POIMarkerPress
  \/ LocationButtonPress
  \/ LocationResolve
  \/ LocationReject
  \/ BackArrow
  \/ FocusInput
  \/ BlurInput
  \/ TypeText

SpecStartDisplay == Init /\ [][NextStartDisplay]_vars /\ WF_vars(LookupSettles)

\* ------------------------------------- the omnibox's controls (SpecControls)
CommitCtl(c, mode, op) ==
  /\ date' = c.date
  /\ dateIsNow' = c.dateIsNow
  /\ showTimePicker' = c.showTimePicker
  /\ travelMode' = mode
  /\ lastOp' = op
  /\ UNCHANGED <<screenVars, platformOS, clock, indoorVars>>

\* The time picker button of the omnibox is pressed.
TimePickerButtonPress ==
  /\ ~crashed
  /\ OmniboxShown(Cur)
  /\ CommitCtl(TimePickerButtonOnPress(Ctl), travelMode, Op("timePickerButton", Null))

\* The rendered time picker reports a time, or null when it is dismissed.
\* The op records whether a null pick directly follows another null pick.
DatePick ==
  /\ ~crashed
  /\ OmniboxShown(Cur)
  /\ showTimePicker
  /\ \E pickedDate \in Dates \cup {NoDate} :
       CommitCtl(onDateChange(Ctl, pickedDate, <<clock>>), travelMode,
                 Op("onDateChange",
                    IF pickedDate # NoDate THEN "date"
                    ELSE IF lastOp.op = "onDateChange" /\ lastOp.arg # "date"
                           THEN "null again" ELSE "null"))

\* Time passes.
ClockTick ==
  /\ clock < MaxClock
  /\ clock' = clock + 1
  /\ UNCHANGED <<screenVars, lastOp, date, dateIsNow, showTimePicker, platformOS,
                 travelMode, indoorVars>>

\* The button of travel mode m is pressed.
TravelModePress ==
  /\ ~crashed
  /\ OmniboxShown(Cur)
  /\ \E m \in TravelModes :
       CommitCtl(Ctl, TravelModeOnPressOut(travelMode, m), Op("TravelModePress", m))

InitControls ==
  /\ ScreenInit
  /\ ControlsInit
  /\ platformOS \in Platforms
  /\ travelMode \in TravelModes
  /\ IndoorInit

NextControls ==
  \/ POIMarkerPress
  \/ TimePickerButtonPress
  \/ DatePick
  \/ ClockTick
  \/ TravelModePress

SpecControls == InitControls /\ [][NextControls]_vars

\* ------------------------------------------- the indoor floors (SpecIndoor)
\* The map focuses an indoor building: any levels, any active level index.
IndoorViewEntry ==
  \E levels \in LevelLists, activeLevelIndex \in FloorIndexes :
    /\ indoorInformation' = onIndoorViewEntry(indoorInformation, levels, activeLevelIndex)
    /\ lastOp' = Op("onIndoorViewEntry", Null)
    /\ UNCHANGED <<screenVars, controlVars>>

\* A button of the floor picker is pressed.
FloorPickerButtonPress ==
  \E index \in FloorIndexes :
    /\ indoorInformation' = onFloorPickerButtonPress(indoorInformation, index)
    /\ lastOp' = Op("onFloorPickerButtonPress", Null)
    /\ UNCHANGED <<screenVars, controlVars>>

NextIndoor ==
  \/ IndoorViewEntry
  \/ FloorPickerButtonPress

SpecIndoor == Init /\ [][NextIndoor]_vars

\* ------------------------------------------------------------ properties
\* The information panel is rendered in NONE when the flag is set.
PanelShown == travelState = NONE /\ showBuildingInfo

FocusedEndpoint == IF endLocationFocused THEN endLocation ELSE startLocation

\* C1: a building tap in NONE sets tappedBuilding to the building's id and
\* shows the panel; a building tap in PLANNING sets the focused endpoint to
\* the building, does not set the panel flag and the panel is not shown.
C1_BuildingTap ==
  [][\A b \in BuildingIds :
       lastOp' = Op("onBuildingTap", b) =>
         /\ travelState = NONE =>
              tappedBuilding' = b /\ showBuildingInfo' /\ PanelShown'
         /\ travelState = PLANNING =>
              /\ FocusedEndpoint' = Building(b)
              /\ endLocationFocused' = endLocationFocused
              /\ showBuildingInfo' = showBuildingInfo
              /\ ~PanelShown']_vars

C1_Witness ==
  /\ lastOp = Op("onBuildingTap", "EV")
  /\ travelState = PLANNING
  /\ ~endLocationFocused
  /\ startLocation = Building("EV")
  /\ showBuildingInfo

\* C2: pressing the back arrow of the omnibox yields startLocation = null,
\* endLocation = null, endLocationFocused = true and travelState = NONE.
C2_BackArrow ==
  [][lastOp'.op = "BackArrow" =>
       /\ startLocation' = NullLocation
       /\ endLocation' = NullLocation
       /\ endLocationFocused'
       /\ travelState' = NONE]_vars

C2_Witness ==
  /\ lastOp.op = "BackArrow"
  /\ travelState = NONE
  /\ startLocation = NullLocation
  /\ endLocation = NullLocation
  /\ endLocationFocused
  /\ pendingLookups # <<>>

\* The registry positions of the buildings whose polygon contains c.
Containing(c) == {i \in 1..Len(Buildings) : isPointInPolygon(c, boundingBox[Buildings[i]])}

GenericMarker(c) ==
  [type |-> "CurrentLocation", id |-> CURRENT_LOCATION_DISPLAY_TEXT, coords |-> c]

MarkerOf(b) == [type |-> "BuildingMarker", id |-> b, coords |-> Null]

\* C3 as stated: a resolved coordinate inside exactly one polygon makes
\* startLocation that building; inside none or inside several, the generic
\* current-location marker carrying the coordinate.
C3_ExactlyOneOrGeneric ==
  [][\A c \in Coords :
       lastOp' = Op("LocationResolve", c) =>
         IF Cardinality(Containing(c)) = 1
           THEN \E i \in Containing(c) : startLocation' = MarkerOf(Buildings[i])
           ELSE startLocation' = GenericMarker(c)]_vars

\* C3 as amended: a resolved coordinate inside at least one polygon makes
\* startLocation the first containing building of the registry; inside
\* none, the generic current-location marker carrying the coordinate.
C3_FirstContainingOrGeneric ==
  [][\A c \in Coords :
       lastOp' = Op("LocationResolve", c) =>
         IF Containing(c) = {}
           THEN startLocation' = GenericMarker(c)
           ELSE \E i \in Containing(c) :
                  /\ \A j \in Containing(c) : i <= j
                  /\ startLocation' = MarkerOf(Buildings[i])]_vars

C3_Witness ==
  /\ lastOp = Op("LocationResolve", "c2")
  /\ Cardinality(Containing("c2")) > 1
  /\ startLocation = MarkerOf("H")
  /\ currentLocation = "c2"

\* C4: when PLANNING is entered from NONE with no destination and the
\* lookup issued on entry resolves inside a building, startLocation is that
\* building, endLocation is still empty and travelState is PLANNING.
C4_EntryLookupResolves ==
  [][\A c \in Coords :
       (/\ lastOp.op = "SearchEnter"
        /\ Containing(c) # {}
        /\ lastOp' \in {Op("LocationResolve", c), Op("LocationResolveDropped", c)})
       => /\ startLocation'.type = "BuildingMarker"
          /\ endLocation' = NullLocation
          /\ travelState' = PLANNING
          /\ ~crashed']_vars

\* C5: an autocomplete selection writes the endpoint endLocationFocused
\* names and leaves the other one alone; focusing an input sets the flag;
\* the flag is a boolean while the omnibox is shown.
C5_SelectionFollowsFocus ==
  /\ [][lastOp'.op = "AutocompleteSelect" =>
          \E k \in 1..Len(AutocompleteResults(Cur).items) :
            LET chosen == AutocompleteResults(Cur).items[k]
            IN  IF endLocationFocused
                  THEN endLocation' = chosen /\ startLocation' = startLocation
                  ELSE startLocation' = chosen /\ endLocation' = endLocation]_vars
  /\ [][lastOp'.op = "Focus" => endLocationFocused' = (focusedInput' = "end")]_vars
  /\ [](OmniboxShown(Cur) => endLocationFocused \in BOOLEAN)

C5_Witness ==
  /\ lastOp.op = "AutocompleteSelect"
  /\ ~endLocationFocused
  /\ startLocation = SearchResult("a")
  /\ endLocation = Poi("cafe")

\* C6: onClosePanel leaves tappedBuilding = null and showBuildingInfo =
\* false and changes nothing else.
C6_ClosePanel ==
  [][lastOp'.op = "onClosePanel" =>
       /\ tappedBuilding' = Null
       /\ ~showBuildingInfo'
       /\ UNCHANGED <<currentLocation, endLocation, startLocation,
                      endLocationFocused, travelState, startLocationDisplay,
                      endLocationDisplay, startLocationSearchResults,
                      endLocationSearchResults, focusedInput,
                      pendingLookups, pendingSearches, crashed>>]_vars

C6_Witness ==
  /\ lastOp.op = "onClosePanel"
  /\ tappedBuilding = Null
  /\ ~showBuildingInfo
  /\ startLocation = MarkerOf("H")
  /\ pendingLookups # <<>>

\* C7: travelState moves only NONE -> PLANNING, PLANNING -> TRAVELLING and
\* back to NONE.
C7_TravelStateOrder ==
  [][\/ travelState' = travelState
     \/ travelState = NONE /\ travelState' = PLANNING
     \/ travelState = PLANNING /\ travelState' = TRAVELLING
     \/ travelState' = NONE]_vars

\* C8: no cancellation.  A resolved lookup sets startLocation whatever the
\* state it arrives in; a search response sets the candidate list of the
\* input it was issued for whatever input has the focus.
C8_NoCancellation ==
  /\ [][\A c \in Coords :
          lastOp' = Op("LocationResolve", c) =>
            /\ startLocation' \in {MarkerOf(b) : b \in BuildingIds} \cup {GenericMarker(c)}
            /\ currentLocation' = c]_vars
  /\ [][lastOp'.op = "SearchResponse" =>
          \E j \in 1..Len(pendingSearches) :
            LET req == pendingSearches[j]
            IN  /\ pendingSearches' = RemoveAt(pendingSearches, j)
                /\ IF req.field = "start"
                     THEN startLocationSearchResults' = Results("start", req.text)
                     ELSE endLocationSearchResults' = Results("end", req.text)]_vars

C8_Witness ==
  /\ lastOp.op = "LocationResolve"
  /\ travelState = NONE
  /\ endLocation = NullLocation
  /\ startLocation = GenericMarker("c0")
  /\ ~showBuildingInfo
  /\ tappedBuilding = "EV"

\* C9: the displayed autocomplete list is the list fetched for the input
\* that endLocationFocused names.
C9_DisplayedListOfFocusedField ==
  (~crashed /\ OmniboxShown(Cur) /\ AutocompleteShown(Cur)) =>
    AutocompleteResults(Cur).field = (IF endLocationFocused THEN "end" ELSE "start")

\* C10: a rejected lookup empties startLocationDisplay, leaves
\* startLocation, endLocation, currentLocation and travelState unchanged and
\* issues no lookup; lookups are issued by user actions only.
UserLookupOps == {"onPOIMarkerPress", "LocationButtonPress", "SearchSelect", "SearchEnter"}

C10_LookupFailure ==
  /\ [][lastOp'.op = "LocationReject" =>
          /\ startLocationDisplay' = ""
          /\ UNCHANGED <<startLocation, endLocation, currentLocation, travelState>>
          /\ Len(pendingLookups') = Len(pendingLookups) - 1]_vars
  /\ [][Len(pendingLookups') > Len(pendingLookups) => lastOp'.op \in UserLookupOps]_vars

C10_Witness ==
  /\ lastOp.op = "LocationReject"
  /\ travelState = PLANNING
  /\ startLocationDisplay = ""
  /\ startLocation = NullLocation
  /\ endLocation = Poi("cafe")
  /\ pendingLookups = <<>>

\* C11: a POI press in NONE moves to PLANNING, sets endLocation to the POI
\* and issues exactly one lookup; a POI press in PLANNING issues no lookup
\* and writes only the focused endpoint.
C11_POIMarkerPress ==
  [][\A p \in POIs :
       lastOp' = Op("onPOIMarkerPress", p) =>
         /\ travelState = NONE =>
              /\ travelState' = PLANNING
              /\ endLocation' = Poi(p)
              /\ startLocation' = startLocation
              /\ Len(pendingLookups') = Len(pendingLookups) + 1
         /\ travelState = PLANNING =>
              /\ pendingLookups' = pendingLookups
              /\ travelState' = PLANNING
              /\ endLocationFocused' = endLocationFocused
              /\ IF endLocationFocused
                   THEN endLocation' = Poi(p) /\ startLocation' = startLocation
                   ELSE startLocation' = Poi(p) /\ endLocation' = endLocation]_vars

C11_Witness ==
  /\ lastOp = Op("onPOIMarkerPress", "cafe")
  /\ travelState = PLANNING
  /\ ~endLocationFocused
  /\ startLocation = Poi("cafe")
  /\ endLocation = SearchResult("a")
  /\ pendingLookups = <<>>

\* C12: while the omnibox is shown, whenever startLocation is set and the
\* start input is not being edited, the start display is the start
\* location's displayName (also after a lookup has failed); the end display
\* is likewise the end location's displayName.
C12_DisplayInSync ==
  (~crashed /\ OmniboxShown(Cur)) =>
    /\ (startLocation # NullLocation /\ focusedInput # "start")
         => startLocationDisplay = displayName(startLocation)
    /\ (endLocation # NullLocation /\ focusedInput # "end")
         => endLocationDisplay = displayName(endLocation)

\* C13: typing in an input changes only that input's display text (and
\* issues its search) and leaves the committed endpoints alone; an input
\* that loses the focus while its endpoint is set shows the endpoint's
\* displayName again and its candidate list is null.
C13_TypingAndBlur ==
  /\ [][lastOp'.op = "ChangeText" =>
          /\ UNCHANGED <<startLocation, endLocation, endLocationFocused,
                         travelState, focusedInput, showBuildingInfo,
                         tappedBuilding, currentLocation, pendingLookups,
                         startLocationSearchResults, endLocationSearchResults>>
          /\ focusedInput = "start" => endLocationDisplay' = endLocationDisplay
          /\ focusedInput = "end" => startLocationDisplay' = startLocationDisplay]_vars
  /\ [][lastOp'.op \in {"Blur", "Focus"} =>
          /\ (focusedInput = "start" /\ startLocation # NullLocation) =>
               /\ startLocationDisplay' = displayName(startLocation)
               /\ startLocationSearchResults' = NullResults
          /\ (focusedInput = "end" /\ endLocation # NullLocation) =>
               /\ endLocationDisplay' = displayName(endLocation)
               /\ endLocationSearchResults' = NullResults
          /\ UNCHANGED <<startLocation, endLocation>>]_vars

C13_Witness ==
  /\ lastOp.op = "Blur"
  /\ startLocation = Poi("cafe")
  /\ startLocationDisplay = "cafe"
  /\ startLocationSearchResults = NullResults
  /\ pendingSearches = <<[field |-> "start", text |-> "a"]>>

\* C14: as MapScreen composes the omnibox, the start-travel affordance is
\* rendered exactly when both endpoints are set and travelState is PLANNING.
C14_StartTravelVisible ==
  (~crashed /\ OmniboxShown(Cur)) =>
    (StartTravelShownAsComposed(Cur) <=>
       (/\ startLocation # NullLocation
        /\ endLocation # NullLocation
        /\ travelState = PLANNING))

\* C15: in PLANNING an autocomplete selection, a building tap or a POI
\* press sets the focused endpoint, and after the update the candidate
\* list of that endpoint is null.
C15_SelectionClearsCandidates ==
  [][(/\ travelState = PLANNING
      /\ lastOp'.op \in {"AutocompleteSelect", "onBuildingTap", "onPOIMarkerPress"})
     => IF endLocationFocused
          THEN endLocation' # NullLocation /\ endLocationSearchResults' = NullResults
          ELSE startLocation' # NullLocation /\ startLocationSearchResults' = NullResults]_vars

\* C16: a null time pick sets dateIsNow and the departure text is "now",
\* from any state; a null pick directly after a null pick leaves dateIsNow,
\* the departure text and showTimePicker as they were, and so does applying
\* onDateChange(null) twice in any state; a non-null pick clears dateIsNow.
NowText == [now |-> TRUE, time |-> NoDate]

C16_NullPickIdempotent ==
  /\ [][/\ (lastOp'.op = "onDateChange" /\ lastOp'.arg # "date"
              => dateIsNow' /\ DepartText(Ctl)' = NowText)
        /\ (lastOp' = Op("onDateChange", "null again")
              => /\ dateIsNow' = dateIsNow
                 /\ DepartText(Ctl)' = DepartText(Ctl)
                 /\ showTimePicker' = showTimePicker)
        /\ (lastOp' = Op("onDateChange", "date")
              => ~dateIsNow' /\ DepartText(Ctl)' # NowText)]_vars
  /\ [](\A n1 \in Dates, n2 \in Dates :
          LET a == onDateChange(Ctl, NoDate, n1)
              b == onDateChange(a, NoDate, n2)
          IN /\ a.dateIsNow /\ DepartText(a) = NowText
             /\ b.dateIsNow = a.dateIsNow
             /\ DepartText(b) = DepartText(a)
             /\ b.showTimePicker = a.showTimePicker)

\* A null pick directly after a null pick, at the latest time.
C16_Witness ==
  /\ lastOp = Op("onDateChange", "null again")
  /\ dateIsNow
  /\ date = <<MaxClock>>

\* C19: pressing the button of any travel mode makes it the travel mode,
\* and exactly the button of the current travel mode is highlighted.
C19_TravelModeSelect ==
  /\ [][\A m \in TravelModes :
          lastOp' = Op("TravelModePress", m) => travelMode' = m]_vars
  /\ [](OmniboxShown(Cur) /\ ~crashed
          => {m \in TravelModes : Highlighted(travelMode, m)} = {travelMode})

\* C17: the current floor, if present, is an element of floors, after any
\* indoor-building-focus events and floor-picker presses; a floor-picker
\* press never changes floors.
FloorPresent(f) == f # NullFloor /\ f # UndefinedFloor

C17_CurrentFloorInFloors ==
  /\ [](FloorPresent(indoorInformation.currentFloor)
          => \E i \in 1..Len(indoorInformation.floors) :
               indoorInformation.floors[i] = indoorInformation.currentFloor)
  /\ [][lastOp'.op = "onFloorPickerButtonPress"
          => indoorInformation'.floors = indoorInformation.floors]_vars

\* A floor-picker press has moved the current floor to the second floor of
\* a list focused before.
C17_Witness ==
  /\ lastOp.op = "onFloorPickerButtonPress"
  /\ Len(indoorInformation.floors) = MaxLevels
  /\ indoorInformation.currentFloor = indoorInformation.floors[MaxLevels]
  /\ indoorInformation.currentFloor # indoorInformation.floors[1]

\* C18: after a lookup has resolved with coordinate c, startLocation is the
\* building at registry position i exactly when the polygon at i contains c
\* and no earlier polygon does, and it is the generic current-location
\* point exactly when no polygon contains c.
C18_FirstMatchWins ==
  \A c \in Coords :
    lastOp = Op("LocationResolve", c) =>
      /\ \A i \in 1..Len(Buildings) :
           (startLocation = MarkerOf(Buildings[i])) <=>
             (/\ isPointInPolygon(c, boundingBox[Buildings[i]])
              /\ \A j \in 1..(i - 1) : ~isPointInPolygon(c, boundingBox[Buildings[j]]))
      /\ (startLocation = GenericMarker(c)) <=>
           (\A i \in 1..Len(Buildings) : ~isPointInPolygon(c, boundingBox[Buildings[i]]))

C18_Witness ==
  /\ lastOp = Op("LocationResolve", "c2")
  /\ isPointInPolygon("c2", boundingBox["H"])
  /\ isPointInPolygon("c2", boundingBox["EV"])
  /\ startLocation = MarkerOf(Buildings[1])
  /\ travelState = PLANNING

C21_NoneImpliesEndFocused ==
  /\ [](travelState = NONE => endLocationFocused)
  /\ [][lastOp'.op = "onPOIMarkerPress" /\ travelState = NONE
          => /\ endLocation' = Poi(lastOp'.arg)
             /\ travelState' = PLANNING
             /\ startLocation' = startLocation]_vars

\* A POI press in NONE after an earlier planning session (a building was
\* tapped outside NONE).
C21_Witness ==
  /\ lastOp.op = "onPOIMarkerPress"
  /\ travelState = PLANNING
  /\ endLocationFocused
  /\ endLocation = Poi(lastOp.arg)
  /\ startLocation = NullLocation
  /\ pendingLookups # <<>>
  /\ tappedBuilding # Null
  /\ ~showBuildingInfo

\* C22: in every reachable state showBuildingInfo implies tappedBuilding is
\* non-null, under any interleaving of taps, panel closes, back presses and
\* lookup resolutions.
C22_ShownImpliesTapped == showBuildingInfo => tappedBuilding # Null

\* A lookup issued in NONE has resolved inside a building while PLANNING:
\* its building tap set the panel flag and the tapped building together.
C22_Witness ==
  /\ lastOp.op = "LocationResolve"
  /\ travelState = PLANNING
  /\ showBuildingInfo
  /\ tappedBuilding = "H"

\* C23: a building tap while travelState is NONE or TRAVELLING leaves
\* startLocation, endLocation, endLocationFocused and travelState
\* unchanged, also when the tap reads the closure of such a state; a
\* building tap writes an endpoint only in PLANNING.
C23_TapFrame ==
  /\ [][lastOp'.op = "onBuildingTap"
          => /\ travelState \in {NONE, TRAVELLING}
                  => /\ startLocation' = startLocation
                     /\ endLocation' = endLocation
                     /\ endLocationFocused' = endLocationFocused
                     /\ travelState' = travelState
             /\ (startLocation' # startLocation \/ endLocation' # endLocation)
                  => travelState = PLANNING]_vars
  /\ [](\A b \in BuildingIds, ts \in {NONE, TRAVELLING}, f \in BOOLEAN :
          LET n == onBuildingTap(Cur, [travelState |-> ts, endLocationFocused |-> f], b)
          IN /\ n.startLocation = startLocation
             /\ n.endLocation = endLocation
             /\ n.endLocationFocused = endLocationFocused
             /\ n.travelState = travelState
             /\ n.tappedBuilding = b)

\* A building was tapped while TRAVELLING with both endpoints set.
C23_Witness ==
  /\ lastOp.op = "onBuildingTap"
  /\ travelState = TRAVELLING
  /\ tappedBuilding = lastOp.arg
  /\ startLocation # NullLocation
  /\ endLocation # Building(lastOp.arg)

\* C24: while the omnibox is shown, the fetching placeholder in the start
\* display does not outlive its lookup: whenever no lookup is in flight the
\* start display is not the placeholder, and a shown placeholder is
\* eventually replaced (or the omnibox is left) once lookups settle.
PlaceholderShown ==
  /\ OmniboxShown(Cur)
  /\ ~crashed
  /\ startLocationDisplay = FETCHING_CURRENT_LOCATION_DISPLAY_TEXT

====
